---- MODULE Spec2Model ----
(***************************************************************************)
(* Model of rps_helper.js: the session claim (handleNewGameSession), the   *)
(* callback_query router, the two game modes (runRPSPvB, runRPSPvP), the   *)
(* turn timeout (handleGameTimeout), the finalizer                         *)
(* (finalizeAndRecordOutcome) and the outcome resolver                     *)
(* (determineRPSOutcome).                                                  *)
(*                                                                         *)
(* Every worker is a single-threaded event loop.  A handler runs           *)
(* synchronously up to its next `await`; each action below is one such     *)
(* synchronous span.  Consecutive awaits with no access to shared state    *)
(* between them are one suspension point.                                  *)
(***************************************************************************)
EXTENDS Integers, FiniteSets, Sequences, Bags, TLC

\* ---------------------------------------------------------------- bounds
NumWorkers == 2
MaxEvents == 3
MaxTasks == 2

Workers == 1..NumWorkers

\* ------------------------------------------------------------- vocabulary
Null == "null"
Initiator == "u1"
Actors == {"u1", "u2", "u3"}

RPS_CHOICES == {"rock", "paper", "scissors"}
RPS_RULES == [rock |-> [beats |-> "scissors", verb |-> "crushes"],
              paper |-> [beats |-> "rock", verb |-> "covers"],
              scissors |-> [beats |-> "paper", verb |-> "cuts"]]

\* choice payloads a callback can carry (data.split(':')[2]), one of each
\* kind the code tells apart: a valid choice, a case variant of a valid
\* choice (stored as sent, lower-cased by the resolver; with the former it
\* gives a win either way and a draw), one that is no key of RPS_RULES, and
\* the empty string of data ending in ':'
Payloads == {"scissors", "ROCK", "lizard", ""}
\* keys handed to the resolver directly
ChoiceKeys == {"rock", "paper", "scissors", "ROCK", "Paper", "lizard"}
Names == {"Player 1", "Ann"}

ActionKinds == {"cf_helper_cancel", "cf_helper_accept_bot", "cf_helper_accept_pvp",
                "cf_helper_accept_direct", "cf_helper_decline_direct",
                "rps_helper_pvb_choice", "rps_helper_pvp_submit"}

\* the kinds whose callback data carries a choice as params[0]
ChoiceKinds == {"rps_helper_pvb_choice", "rps_helper_pvp_submit"}
\* callback data: action, session id and, for the choice kinds, a choice
CallbackData == {[action |-> k, choice |-> Null] : k \in ActionKinds \ ChoiceKinds}
                    \cup {[action |-> k, choice |-> ch] : k \in ChoiceKinds, ch \in Payloads}

Completed == {"completed_p1_win", "completed_p2_win", "completed_bot_win",
              "completed_push", "completed_cancelled", "completed_timeout"}

\* ------------------------------------------------------------------ state
VARIABLES
    row,            \* the rps_sessions row: status, helper_bot_id, opponent_id
    rowLock,        \* worker whose open transaction holds the row lock, 0 if none
    finalizeWrites, \* finalize UPDATE statements the datastore has received
    claim,          \* per worker: position in handleNewGameSession and rowCount
    active,         \* workers whose activeHelperGames holds the session
    sess,           \* per worker: the in-memory session object
    timers,         \* bag of pending setTimeout tasks: [w, ctx, held]
    tasks,          \* bag of suspended handler invocations (callbacks and timeouts)
    events,         \* callback_query events delivered so far
    rin,            \* resolver harness: arguments
    rout            \* resolver harness: returned value

vars == <<row, rowLock, finalizeWrites, claim, active, sess, timers,
          tasks, events, rin, rout>>
gameVars == <<row, rowLock, finalizeWrites, claim, active, sess, timers,
              tasks, events>>

\* ---------------------------------------------------------- pure helpers
\* String(key).toLowerCase() on the keys of ChoiceKeys
ToLowerCase(s) ==
    CASE s = "ROCK" -> "rock"
      [] s = "Paper" -> "paper"
      [] OTHER -> s

\* the resolver with the beats test applied to the wrong side
determineRPSOutcome_Reversed(player1ChoiceKey, player2ChoiceKey, player1NameHtml, player2NameHtml) ==
    LET p1c == ToLowerCase(player1ChoiceKey)
        p2c == ToLowerCase(player2ChoiceKey)
    IN  IF p1c \notin RPS_CHOICES \/ p2c \notin RPS_CHOICES
        THEN [result |-> "error", description |-> <<"An internal error occurred.">>]
        ELSE IF p1c = p2c
        THEN [result |-> "draw", description |-> <<"It's a Draw!">>]
        ELSE IF RPS_RULES[p2c].beats = p1c
        THEN [result |-> "win_player1",
              description |-> <<player1NameHtml, p1c, RPS_RULES[p1c].verb, p2c>>]
        ELSE [result |-> "win_player2",
              description |-> <<player2NameHtml, p2c, RPS_RULES[p2c].verb, p1c>>]

determineRPSOutcome(player1ChoiceKey, player2ChoiceKey, player1NameHtml, player2NameHtml) ==
    LET p1c == ToLowerCase(player1ChoiceKey)
        p2c == ToLowerCase(player2ChoiceKey)
    IN  IF p1c \notin RPS_CHOICES \/ p2c \notin RPS_CHOICES
        THEN [result |-> "error", description |-> <<"An internal error occurred.">>]
        ELSE IF p1c = p2c
        THEN [result |-> "draw", description |-> <<"It's a Draw!">>]
        ELSE IF RPS_RULES[p1c].beats = p2c
        THEN [result |-> "win_player1",
              description |-> <<player1NameHtml, p1c, RPS_RULES[p1c].verb, p2c>>]
        ELSE [result |-> "win_player2",
              description |-> <<player2NameHtml, p2c, RPS_RULES[p2c].verb, p1c>>]

\* JavaScript truthiness of a stored choice: null, undefined and '' are falsy
Truthy(x) == x \notin {Null, ""}

\* lines 68-71: the values the random draw can return
getRandomRPSChoice == RPS_CHOICES

\* line 279: terminal status of a PvB round
PvBFinalStatus(result) ==
    IF result = "win_player1" THEN "completed_p1_win"
    ELSE IF result = "draw" THEN "completed_push"
    ELSE "completed_bot_win"

\* line 300: terminal status of a PvP round
PvPFinalStatus(result) ==
    IF result = "win_player1" THEN "completed_p1_win"
    ELSE IF result = "win_player2" THEN "completed_p2_win"
    ELSE "completed_push"

\* lines 180-188: terminal status forced by a timeout context
TimeoutStatus(context) ==
    CASE context = "offer" -> "completed_timeout"
      [] context = "pvb_player_turn" -> "completed_bot_win"
      [] context = "pvp_choices" -> "completed_push"
      [] OTHER -> Null

\* A pending timer is [w, ctx, held]: held means session.timeoutId of worker
\* w's session object is this timer's id.  Timer ids are used for nothing but
\* clearTimeout(session.timeoutId).
HeldTimers(ts, w) == {tm \in BagToSet(ts) : tm.w = w /\ tm.held}

\* clearTimeout(session.timeoutId): cancels the timer the session designates,
\* if it is still pending
clearTimeout(ts, w) == ts (-) SetToBag(HeldTimers(ts, w))

\* session.timeoutId = setTimeout(...): the new timer is pending and
\* designated; a timer designated before stays pending, undesignated
setTimeout(ts, w, ctx) ==
    LET old == HeldTimers(ts, w)
        orphaned == {[tm EXCEPT !.held = FALSE] : tm \in old}
    IN  ((ts (-) SetToBag(old)) (+) SetToBag(orphaned))
            (+) SetToBag({[w |-> w, ctx |-> ctx, held |-> TRUE]})

\* arm: the arm of the router, or "timeout", the invocation runs
Task(pc, w, arm, fstatus, a, b) ==
    [pc |-> pc, w |-> w, arm |-> arm, fstatus |-> fstatus, a |-> a, b |-> b]
\* a handler invocation moves from one suspension point to the next, or ends
Resume(ts, old, new) == (ts (-) SetToBag({old})) (+) SetToBag(new)

\* the session object before the worker has loaded any row; game_state_json
\* keeps the status the row was created with until a game mode overwrites it
NoSession == [opponent_id |-> Null, status |-> Null, p1_choice |-> Null,
              p2_choice |-> Null]

\* ------------------------------------------------------------------- Init
GameInit ==
    /\ row \in {[status |-> "pending_pickup", helper_bot_id |-> 0, opponent_id |-> o] :
                    o \in {Null, "u2"}}
    /\ rowLock = 0
    /\ finalizeWrites = 0
    /\ claim = [w \in Workers |-> [pc |-> "start", rowCount |-> 0]]
    /\ active = {}
    /\ sess = [w \in Workers |-> NoSession]
    /\ timers = EmptyBag
    /\ tasks = EmptyBag
    /\ events = 0

NoResolverCall == [a |-> Null, b |-> Null, n1 |-> Null, n2 |-> Null]
NoResult == [result |-> Null, description |-> <<>>]

Init ==
    /\ GameInit
    /\ rin = NoResolverCall
    /\ rout = NoResult

\* ------------------------------------------- handleNewGameSession (199-232)
\* the UPDATE without its status = 'pending_pickup' condition
ClaimUpdate_NoStatusCheck(w, ok) ==
    /\ claim[w].pc = "start"
    /\ IF ok
       THEN /\ rowLock = 0
            /\ row' = [row EXCEPT !.status = "in_progress", !.helper_bot_id = w]
            /\ rowLock' = w
            /\ claim' = [claim EXCEPT ![w] = [pc |-> "updated", rowCount |-> 1]]
       ELSE /\ claim' = [claim EXCEPT ![w] = [pc |-> "done", rowCount |-> 0]]
            /\ UNCHANGED <<row, rowLock>>
    /\ UNCHANGED <<finalizeWrites, active, sess, timers, tasks, events, rin, rout>>

\* lines 203-214 and 226-227: the conditional UPDATE ... RETURNING *, inside
\* the transaction; with zero affected rows the handler rolls back and
\* returns.  When pool.connect, BEGIN or the UPDATE rejects (ok = FALSE) the
\* catch rolls back: no row is affected and the handler is over.
ClaimUpdate(w, ok) ==
    /\ claim[w].pc = "start"
    /\ IF ~ok
       THEN /\ claim' = [claim EXCEPT ![w] = [pc |-> "done", rowCount |-> 0]]
            /\ UNCHANGED <<row, rowLock>>
       ELSE /\ rowLock = 0
            /\ IF row.status = "pending_pickup"
               THEN /\ row' = [row EXCEPT !.status = "in_progress", !.helper_bot_id = w]
                    /\ rowLock' = w
                    /\ claim' = [claim EXCEPT ![w] = [pc |-> "updated", rowCount |-> 1]]
               ELSE /\ claim' = [claim EXCEPT ![w] = [pc |-> "done", rowCount |-> 0]]
                    /\ UNCHANGED <<row, rowLock>>
    /\ UNCHANGED <<finalizeWrites, active, sess, timers, tasks, events, rin, rout>>

\* line 216: COMMIT releases the row lock.  When it rejects (ok = FALSE) the
\* transaction is rolled back (catch, line 227): the row is pending_pickup
\* with no claimant again, line 218 never runs and the handler is over.
ClaimCommit(w, ok) ==
    /\ claim[w].pc = "updated"
    /\ claim[w].rowCount = 1
    /\ rowLock' = 0
    /\ IF ok
       THEN /\ claim' = [claim EXCEPT ![w].pc = "committed"]
            /\ UNCHANGED row
       ELSE /\ claim' = [claim EXCEPT ![w].pc = "done"]
            /\ row' = [row EXCEPT !.status = "pending_pickup", !.helper_bot_id = 0]
    /\ UNCHANGED <<finalizeWrites, active, sess, timers, tasks, events, rin, rout>>

\* lines 218-231: the session enters the table; runDirectChallenge and
\* runUnifiedOffer are not defined anywhere in the program, so the call at
\* 221/223 throws a ReferenceError, which the catch at 226 logs.  No game
\* state is initialised and no timer is armed.
ClaimInstall(w) ==
    /\ claim[w].pc = "committed"
    /\ active' = active \cup {w}
    /\ sess' = [sess EXCEPT ![w] = [NoSession EXCEPT !.opponent_id = row.opponent_id]]
    /\ claim' = [claim EXCEPT ![w].pc = "done"]
    /\ UNCHANGED <<row, rowLock, finalizeWrites, timers, tasks, events, rin, rout>>

\* --------------------------------------------- bot.on('callback_query') (234-309)
\* lines 250-308: which arm of the else-if chain an event takes
Branch(s, action, clickerId) ==
    IF action = "cf_helper_cancel" /\ clickerId = Initiator THEN "cancel"
    ELSE IF action = "cf_helper_accept_bot" /\ clickerId = Initiator THEN "accept_bot"
    ELSE IF action = "cf_helper_accept_pvp" /\ clickerId # Initiator THEN "accept_pvp"
    ELSE IF action = "cf_helper_accept_direct" /\ clickerId = s.opponent_id THEN "accept_direct"
    ELSE IF action = "cf_helper_decline_direct" /\ clickerId = s.opponent_id THEN "decline_direct"
    ELSE IF action = "rps_helper_pvb_choice"
         THEN IF clickerId = Initiator THEN "pvb_choice" ELSE "ignored"
    ELSE IF action = "rps_helper_pvp_submit"
         THEN LET playerKey == IF clickerId = Initiator THEN "p1_choice"
                               ELSE IF clickerId = s.opponent_id THEN "p2_choice"
                               ELSE Null
              IN  IF playerKey # Null /\ ~Truthy(s[playerKey]) THEN playerKey ELSE "already"
    ELSE "ignored"

\* the router without its "no longer active" return: a cancel from the
\* initiator goes on to the finalizer
CallbackInactive_NoReturn(w, action, clickerId, choice) ==
    /\ events < MaxEvents
    /\ w \notin active
    /\ BagCardinality(tasks) < MaxTasks
    /\ events' = events + 1
    /\ tasks' = IF action = "cf_helper_cancel" /\ clickerId = Initiator
                THEN tasks (+) SetToBag({Task("pre_finalize", w, "cancel",
                                              "completed_cancelled", Null, Null)})
                ELSE tasks
    /\ UNCHANGED <<row, rowLock, finalizeWrites, claim, active, sess, timers, rin, rout>>

\* lines 240-244: the session is not in this worker's table
CallbackInactive(w, action, clickerId, choice) ==
    /\ events < MaxEvents
    /\ w \notin active
    /\ events' = events + 1
    /\ UNCHANGED <<row, rowLock, finalizeWrites, claim, active, sess, timers, tasks, rin, rout>>

\* lines 245-308 up to the first await of the arm taken
Callback(w, action, clickerId, choice) ==
    /\ events < MaxEvents
    /\ w \in active
    /\ BagCardinality(tasks) < MaxTasks
    /\ events' = events + 1
    /\ timers' = clearTimeout(timers, w)
    /\ LET s == sess[w]
           br == Branch(s, action, clickerId)
       IN  CASE br \in {"cancel", "decline_direct"} ->
                  /\ tasks' = tasks (+) SetToBag({Task("pre_finalize", w, br, "completed_cancelled", Null, Null)})
                  /\ UNCHANGED sess
             [] br = "accept_bot" ->
                  /\ tasks' = tasks (+) SetToBag({Task("run_pvb", w, br, Null, Null, Null)})
                  /\ UNCHANGED sess
             [] br = "accept_pvp" ->
                  /\ sess' = [sess EXCEPT ![w].opponent_id = clickerId]
                  /\ tasks' = tasks (+) SetToBag({Task("run_pvp", w, br, Null, Null, Null)})
             [] br = "accept_direct" ->
                  /\ tasks' = tasks (+) SetToBag({Task("run_pvp", w, br, Null, Null, Null)})
                  /\ UNCHANGED sess
             [] br = "pvb_choice" ->
                  /\ \E botChoice \in getRandomRPSChoice :
                        tasks' = tasks (+) SetToBag({Task("pre_finalize", w, br,
                            PvBFinalStatus(determineRPSOutcome(choice, botChoice, "Ann", "Bot").result),
                            choice, botChoice)})
                  /\ UNCHANGED sess
             [] br \in {"p1_choice", "p2_choice"} ->
                  /\ sess' = [sess EXCEPT ![w][br] = choice]
                  /\ tasks' = tasks (+) SetToBag({Task("pvp_locked", w, "pvp_submit", Null, Null, Null)})
             [] OTHER ->
                  UNCHANGED <<sess, tasks>>
    /\ UNCHANGED <<row, rowLock, finalizeWrites, claim, active, rin, rout>>

\* lines 112-128: runRPSPvB up to its await
RunPvB(t) ==
    /\ t.pc = "run_pvb"
    /\ sess' = [sess EXCEPT ![t.w].status = "pvb_awaiting_player_choice"]
    /\ active' = active \cup {t.w}
    /\ tasks' = Resume(tasks, t, {[t EXCEPT !.pc = "arm_pvb"]})
    /\ UNCHANGED <<row, rowLock, finalizeWrites, claim, timers, events, rin, rout>>

\* lines 137-166: runRPSPvP up to its awaits
RunPvP(t) ==
    /\ t.pc = "run_pvp"
    /\ sess' = [sess EXCEPT ![t.w].status = "pvp_awaiting_choices",
                            ![t.w].p1_choice = Null,
                            ![t.w].p2_choice = Null]
    /\ active' = active \cup {t.w}
    /\ tasks' = Resume(tasks, t, {[t EXCEPT !.pc = "arm_pvp"]})
    /\ UNCHANGED <<row, rowLock, finalizeWrites, claim, timers, events, rin, rout>>

\* lines 130 and 168: session.timeoutId = setTimeout(...)
ArmTimer(t) ==
    /\ t.pc \in {"arm_pvb", "arm_pvp"}
    /\ timers' = setTimeout(timers, t.w,
                            IF t.pc = "arm_pvb" THEN "pvb_player_turn" ELSE "pvp_choices")
    /\ tasks' = Resume(tasks, t, {})
    /\ UNCHANGED <<row, rowLock, finalizeWrites, claim, active, sess, events, rin, rout>>

\* lines 295-302: after the acknowledgements of a locked-in choice
PvPCheck(t) ==
    /\ t.pc = "pvp_locked"
    /\ LET s == sess[t.w]
       IN  IF Truthy(s.p1_choice) /\ Truthy(s.p2_choice)
           THEN /\ timers' = clearTimeout(timers, t.w)
                /\ tasks' = Resume(tasks, t, {Task("pre_finalize", t.w, t.arm,
                       PvPFinalStatus(
                           determineRPSOutcome(s.p1_choice, s.p2_choice, "Ann", "Bob").result),
                       s.p1_choice, s.p2_choice)})
           ELSE /\ tasks' = Resume(tasks, t, {})
                /\ UNCHANGED timers
    /\ UNCHANGED <<row, rowLock, finalizeWrites, claim, active, sess, events, rin, rout>>

\* ---------------------------------------------- handleGameTimeout (176-190)
\* the timer fires: lines 177-187 up to the await of the arm taken
TimerFire(tm) ==
    /\ BagIn(tm, timers)
    /\ timers' = timers (-) SetToBag({tm})
    /\ IF tm.w \in active /\ TimeoutStatus(tm.ctx) # Null
       THEN /\ BagCardinality(tasks) < MaxTasks
            /\ tasks' = tasks (+) SetToBag({Task("pre_finalize", tm.w, "timeout", TimeoutStatus(tm.ctx), Null, Null)})
       ELSE UNCHANGED tasks
    /\ UNCHANGED <<row, rowLock, finalizeWrites, claim, active, sess, events, rin, rout>>

\* --------------------------------------- finalizeAndRecordOutcome (91-103)
\* line 95: the UPDATE is sent; the datastore applies it or fails it
FinalizeIssue(t, ok) ==
    /\ t.pc = "pre_finalize"
    /\ finalizeWrites' = finalizeWrites + 1
    /\ row' = IF ok THEN [row EXCEPT !.status = t.fstatus] ELSE row
    /\ tasks' = Resume(tasks, t, {[t EXCEPT !.pc = IF ok THEN "write_ok" ELSE "write_failed"]})
    /\ UNCHANGED <<rowLock, claim, active, sess, timers, events, rin, rout>>

\* the finalizer evicting in a finally, whatever the write did
FinalizeReturn_AlwaysEvict(t) ==
    /\ t.pc \in {"write_ok", "write_failed"}
    /\ active' = active \ {t.w}
    /\ tasks' = Resume(tasks, t, {})
    /\ UNCHANGED <<row, rowLock, finalizeWrites, claim, sess, timers, events, rin, rout>>

\* lines 99-102: the await returns, or throws into the catch
FinalizeReturn(t) ==
    /\ t.pc \in {"write_ok", "write_failed"}
    /\ active' = IF t.pc = "write_ok" THEN active \ {t.w} ELSE active
    /\ tasks' = Resume(tasks, t, {})
    /\ UNCHANGED <<row, rowLock, finalizeWrites, claim, sess, timers, events, rin, rout>>

\* ------------------------------------------------ rejected transport awaits
\* the suspension points that wait on bot.answerCallbackQuery or
\* bot.editMessageText outside any try/catch (lines 128, 149, 181-187, 251,
\* 255, 260, 265, 268-269, 275, 281, 292-293, 302)
TransportAwaits == {"run_pvb", "arm_pvb", "run_pvp", "arm_pvp", "pvp_locked", "pre_finalize"}

\* the awaited transport call rejects: the invocation ends there and the
\* rest of the handler never runs.  Nothing in the program handles the
\* rejection, so the runtime may also end the worker process; a worker that
\* has stopped takes no further step, and the behaviours in which none of
\* its steps is taken again are behaviours of Spec already.
TransportRejects(t) ==
    /\ t.pc \in TransportAwaits
    /\ tasks' = Resume(tasks, t, {})
    /\ UNCHANGED <<row, rowLock, finalizeWrites, claim, active, sess, timers, events, rin, rout>>

\* ------------------------------------------------------------------- Next
Next ==
    \/ \E w \in Workers, ok \in BOOLEAN : ClaimUpdate(w, ok)
    \/ \E w \in Workers, ok \in BOOLEAN : ClaimCommit(w, ok)
    \/ \E t \in BagToSet(tasks) : TransportRejects(t)
    \/ \E w \in Workers : ClaimInstall(w)
    \/ \E w \in Workers, d \in CallbackData, c \in Actors :
          CallbackInactive(w, d.action, c, d.choice)
    \/ \E w \in Workers, d \in CallbackData, c \in Actors :
          Callback(w, d.action, c, d.choice)
    \/ \E t \in BagToSet(tasks) : RunPvB(t)
    \/ \E t \in BagToSet(tasks) : RunPvP(t)
    \/ \E t \in BagToSet(tasks) : ArmTimer(t)
    \/ \E t \in BagToSet(tasks) : PvPCheck(t)
    \/ \E tm \in BagToSet(timers) : TimerFire(tm)
    \/ \E t \in BagToSet(tasks), ok \in BOOLEAN : FinalizeIssue(t, ok)
    \/ \E t \in BagToSet(tasks) : FinalizeReturn(t)

Spec == Init /\ [][Next]_vars

TypeOK ==
    /\ row.status \in {"pending_pickup", "in_progress"} \cup Completed
    /\ active \subseteq Workers
    /\ events \in 0..MaxEvents
    /\ \A t \in DOMAIN tasks : tasks[t] >= 1
    /\ \A t \in DOMAIN timers : timers[t] >= 1

\* ------------------------------------------------ live specification
\* The run the temporal claims assume: every datastore statement and every
\* transport call succeeds, an
\* armed timer that stays pending eventually fires, and a resumed handler
\* eventually runs.  Callbacks are the users' and need not arrive.
Internal(ok) ==
    \/ \E w \in Workers : ClaimUpdate(w, ok)
    \/ \E w \in Workers : ClaimCommit(w, ok)
    \/ \E w \in Workers : ClaimInstall(w)
    \/ \E t \in BagToSet(tasks) : RunPvB(t)
    \/ \E t \in BagToSet(tasks) : RunPvP(t)
    \/ \E t \in BagToSet(tasks) : ArmTimer(t)
    \/ \E t \in BagToSet(tasks) : PvPCheck(t)
    \/ \E tm \in BagToSet(timers) : TimerFire(tm)
    \/ \E t \in BagToSet(tasks) : FinalizeIssue(t, ok)
    \/ \E t \in BagToSet(tasks) : FinalizeReturn(t)

NextLive ==
    \/ \E w \in Workers, d \in CallbackData, c \in Actors :
          CallbackInactive(w, d.action, c, d.choice)
    \/ \E w \in Workers, d \in CallbackData, c \in Actors :
          Callback(w, d.action, c, d.choice)
    \/ Internal(TRUE)

LiveSpec == Init /\ [][NextLive]_vars /\ WF_vars(Internal(TRUE))

\* ------------------------------------------------ resolver specification
ResolverInit ==
    /\ GameInit
    /\ rin \in [a : ChoiceKeys, b : ChoiceKeys, n1 : Names, n2 : Names]
    /\ rout = NoResult

Resolve ==
    /\ rout = NoResult
    /\ rout' = determineRPSOutcome(rin.a, rin.b, rin.n1, rin.n2)
    /\ UNCHANGED <<gameVars, rin>>

ResolverSpec == ResolverInit /\ [][Resolve]_vars

\* ================================================================ claims
\* the cyclic relation: rock > scissors, scissors > paper, paper > rock
Beats == {<<"rock", "scissors">>, <<"scissors", "paper">>, <<"paper", "rock">>}

\* the workers whose UPDATE affected one row
Winners == {w \in Workers : claim[w].rowCount = 1}
\* the workers whose claim was committed and whose handler has run to its end
Claimants == {w \in Winners : claim[w].pc = "done" /\ row.helper_bot_id = w}
\* the workers that hold anything of the session in memory
Holders == {w \in Workers : \/ w \in active
                            \/ sess[w] # NoSession
                            \/ \E t \in BagToSet(tasks) : t.w = w
                            \/ \E tm \in BagToSet(timers) : tm.w = w}
HandlersOf(w) == {t \in BagToSet(tasks) : t.w = w}
TimersOf(w) == {tm \in BagToSet(timers) : tm.w = w}

\* C1 (as stated): of the workers claiming the same pending row at most one
\* ever gets an affected row, and once all have run exactly one has; the row
\* names it as claimant and, until a finalize, its table holds the session;
\* a worker that got zero rows has nothing in its table, no session object,
\* no handler and no timer.
C1_ExclusiveClaim ==
    /\ Cardinality(Winners) <= 1
    /\ (\A w \in Workers : claim[w].pc = "done") => Cardinality(Winners) = 1
    /\ \A w \in Winners :
          /\ row.helper_bot_id = w
          /\ row.status # "pending_pickup"
          /\ (claim[w].pc = "done" /\ finalizeWrites = 0) =>
                (w \in active /\ row.status = "in_progress")
    /\ \A w \in Workers \ Winners :
          /\ w \notin active
          /\ sess[w] = NoSession
          /\ HandlersOf(w) = {}
          /\ TimersOf(w) = {}

\* C1 (amended): of the workers claiming the same pending row at most one
\* ever holds the session, and only one whose UPDATE affected one row and
\* whose COMMIT succeeded: the row then names it as claimant and is past
\* pending_pickup, and until a finalize its table holds the session and the
\* row is in_progress.  Every other worker, whether it saw zero affected rows
\* or its UPDATE or COMMIT failed and was rolled back, has nothing in its
\* table, no session object, no handler and no timer; while a transaction
\* holds the row no worker holds the session, and once all have run either
\* one worker is the committed claimant or the row is still pending_pickup
\* with no claimant.
C1_AtMostOneClaimant ==
    /\ Cardinality(Holders) <= 1
    /\ Holders \subseteq Claimants
    /\ Cardinality(Claimants) <= 1
    /\ \A w \in Claimants :
          /\ row.status # "pending_pickup"
          /\ finalizeWrites = 0 => (w \in active /\ row.status = "in_progress")
    /\ rowLock # 0 => (Holders = {} /\ row.helper_bot_id = rowLock)
    /\ (\A w \in Workers : claim[w].pc = "done") =>
          \/ Cardinality(Claimants) = 1
          \/ (row.status = "pending_pickup" /\ row.helper_bot_id = 0 /\ Holders = {})

\* a first worker's COMMIT failed after its UPDATE affected one row; the
\* second worker then got one affected row too, committed and holds the session
C1_Witness ==
    \E w, v \in Workers :
        /\ w # v
        /\ claim[w] = [pc |-> "done", rowCount |-> 1]
        /\ claim[v] = [pc |-> "done", rowCount |-> 1]
        /\ w \in active
        /\ v \notin active
        /\ row.status = "in_progress"
        /\ row.helper_bot_id = w

\* C2: the terminal status of a session is written at most once.
C2_FinalizeAtMostOnce == finalizeWrites <= 1

\* the waiting sub-state a timeout context is armed for
ArmedFor(ctx) ==
    CASE ctx = "pvb_player_turn" -> "pvb_awaiting_player_choice"
      [] ctx = "pvp_choices" -> "pvp_awaiting_choices"
      [] OTHER -> "awaiting_offer_response"

StillWaiting(tm) == tm.w \in active /\ sess[tm.w].status = ArmedFor(tm.ctx)

\* C3: a timer expiry whose session is no longer in memory, or no longer in
\* the waiting sub-state the timer was armed for, starts no finalize and
\* changes no session state.
C3_StaleExpiryNoOp ==
    [][\A tm \in BagToSet(timers) :
          (TimerFire(tm) /\ ~StillWaiting(tm)) =>
              (tasks' = tasks /\ sess' = sess /\ active' = active /\ row' = row)]_vars

PvPOneChoice(w) ==
    /\ w \in active
    /\ sess[w].status = "pvp_awaiting_choices"
    /\ (sess[w].p1_choice = Null) # (sess[w].p2_choice = Null)

\* C4: a PvP session holding exactly one choice is eventually finalized with
\* completed_push, unless it stops being such a session (the other choice
\* arrives, or another action takes it elsewhere).
C4_LoneChoiceTimesOut ==
    \A w \in Workers :
        PvPOneChoice(w) ~> (row.status = "completed_push" \/ ~PvPOneChoice(w))

PvBWaiting(w) ==
    /\ w \in active
    /\ sess[w].status = "pvb_awaiting_player_choice"

\* C5: a PvB session awaiting the player's choice is eventually finalized
\* with completed_bot_win, unless the initiator submits a choice or the
\* session stops being such a session (another accepted action moves it).
C5_AbsentPlayerLoses ==
    \A w \in Workers :
        PvBWaiting(w) ~> \/ row.status = "completed_bot_win"
                         \/ ~PvBWaiting(w)
                         \/ sess[w].p1_choice # Null

\* the status the claim assigns to a pair of choices
Expected(a, b) ==
    IF a = b THEN "completed_push"
    ELSE IF <<a, b>> \in Beats THEN "completed_p1_win"
    ELSE "completed_p2_win"

\* C6: in a session claimed as an offer and accepted by a non-initiator,
\* when both PvP choices a (initiator) and b (opponent) are recorded and name
\* rock, paper or scissors (in any letter case), the status handed to the
\* finalizer is p1_win if a beats b, p2_win if b beats a, push if they are
\* the same choice, and once that write has succeeded it is the status the
\* row holds.  The round is one played after the accept: the session is in
\* PvP mode and still holds the two choices the verdict was computed from.
C6_PvPVerdictPersisted ==
    \A t \in BagToSet(tasks) :
        (t.arm = "pvp_submit" /\ t.pc \in {"pre_finalize", "write_ok", "write_failed"}
            /\ row.opponent_id = Null
            /\ sess[t.w].status = "pvp_awaiting_choices"
            /\ sess[t.w].p1_choice = t.a /\ sess[t.w].p2_choice = t.b
            /\ ToLowerCase(t.a) \in RPS_CHOICES /\ ToLowerCase(t.b) \in RPS_CHOICES) =>
            LET status == Expected(ToLowerCase(t.a), ToLowerCase(t.b))
            IN  /\ t.fstatus = status
                /\ t.pc = "write_ok" => row.status = status

\* C7: on choices of {rock, paper, scissors} the resolver returns draw for
\* equal choices, a win for player 1 when the first beats the second in the
\* cyclic relation, a win for player 2 otherwise, whatever the names.
C7_ResolverVerdict ==
    (rout # NoResult /\ rin.a \in RPS_CHOICES /\ rin.b \in RPS_CHOICES) =>
        rout.result = IF rin.a = rin.b THEN "draw"
                      ELSE IF <<rin.a, rin.b>> \in Beats THEN "win_player1"
                      ELSE "win_player2"

C7_Witness ==
    /\ rin.a = "rock" /\ rin.b = "scissors" /\ rin.n1 = "Ann"
    /\ rout.result = "win_player1"

\* C8: when finalize returns, the session is absent from the table, whether
\* the write succeeded or failed.
C8_FinalizeAlwaysEvicts ==
    [][\A t \in BagToSet(tasks) : FinalizeReturn(t) => t.w \notin active']_vars

\* C9: in a PvP session a choice field that holds a choice (the code's test
\* of line 290 takes it as made) keeps its value.
C9_ChoiceImmutable ==
    [][\A w \in Workers :
          (w \in active /\ sess[w].status = "pvp_awaiting_choices") =>
              /\ Truthy(sess[w].p1_choice) => sess'[w].p1_choice = sess[w].p1_choice
              /\ Truthy(sess[w].p2_choice) => sess'[w].p2_choice = sess[w].p2_choice]_vars

\* C10: the sub-status only moves forward: it changes only out of the
\* state the session was claimed in, and a game mode is initialised only
\* from that state, never again and never from the other mode.
C10_StatusMonotonic ==
    [][/\ \A w \in Workers : sess'[w].status # sess[w].status => sess[w].status = Null
       /\ \A t \in BagToSet(tasks) :
             (RunPvB(t) \/ RunPvP(t)) => sess[t.w].status = Null]_vars

\* bag of the timers pending for worker w's session
PendingTimers(ts, w) == BagCardinality([tm \in {x \in BagToSet(ts) : x.w = w} |-> ts[tm]])

\* C11: at most one timer is pending for a session, and none for a session
\* that is not in the table.
C11_AtMostOneTimer ==
    \A w \in Workers :
        /\ PendingTimers(timers, w) <= 1
        /\ w \notin active => PendingTimers(timers, w) = 0

\* C12: an action event delivered to a worker whose table does not hold the
\* session changes nothing of that worker: no entry, no session field, no
\* timer, no handler that could write to the datastore; with no worker
\* holding the session the step changes nothing but the event count.
C12_InactiveRejected ==
    [][events' # events =>
          /\ \A w \in Workers :
                w \notin active =>
                    /\ w \notin active'
                    /\ sess'[w] = sess[w]
                    /\ {tm \in BagToSet(timers') : tm.w = w} = TimersOf(w)
                    /\ {t \in BagToSet(tasks') : t.w = w} = HandlersOf(w)
          /\ active = {} =>
                (row' = row /\ finalizeWrites' = finalizeWrites
                    /\ tasks' = tasks /\ timers' = timers)]_vars

C12_Witness ==
    /\ events >= 2
    /\ active = {}
    /\ finalizeWrites = 1
    /\ row.status = "completed_cancelled"
    /\ tasks = EmptyBag
    /\ \A w \in Workers : claim[w].pc = "done"

\* the role rules: the actor the kind requires is not the one who sent it
Unauthorized(s, action, clickerId) ==
    \/ action \in {"cf_helper_cancel", "cf_helper_accept_bot", "rps_helper_pvb_choice"}
          /\ clickerId # Initiator
    \/ action = "cf_helper_accept_pvp" /\ clickerId = Initiator
    \/ action \in {"cf_helper_accept_direct", "cf_helper_decline_direct"}
          /\ clickerId # s.opponent_id
    \/ action = "rps_helper_pvp_submit" /\ clickerId \notin {Initiator, s.opponent_id}

\* C13: an action from an actor the role rules do not authorize leaves the
\* session's sub-status, opponent, choices, presence in memory and pending
\* timer as they were.
C13_UnauthorizedNoMutation ==
    [][\A w \in Workers, d \in CallbackData, c \in Actors :
          (Callback(w, d.action, c, d.choice) /\ Unauthorized(sess[w], d.action, c)) =>
              (sess' = sess /\ active' = active /\ timers' = timers)]_vars

WinnerStatuses == {"completed_p1_win", "completed_p2_win", "completed_bot_win"}
BothChoices(s) == s.p1_choice # Null /\ s.p2_choice # Null

\* C14: a finalize write for a session in PvP mode carries a winner status
\* only if both choices are recorded at that moment, and a timeout's write
\* with fewer than two choices carries completed_push.
C14_NoWinnerWithoutBothChoices ==
    [][\A t \in BagToSet(tasks) :
          ((\E ok \in BOOLEAN : FinalizeIssue(t, ok))
              /\ sess[t.w].status = "pvp_awaiting_choices"
              /\ ~BothChoices(sess[t.w])) =>
                  /\ t.fstatus \notin WinnerStatuses
                  /\ t.arm = "timeout" => t.fstatus = "completed_push"]_vars

\* C15, for the two play sub-states: a session in the table that awaits a
\* choice, with no handler in progress, has a pending timer.
C15_WaitingHasTimer ==
    \A w \in Workers :
        (w \in active /\ HandlersOf(w) = {}
            /\ sess[w].status \in {"pvb_awaiting_player_choice", "pvp_awaiting_choices"}) =>
                PendingTimers(timers, w) >= 1

OfferWaiting(w) ==
    /\ w \in active
    /\ row.opponent_id = Null
    /\ sess[w] = NoSession

\* C16: a claimed offer (no opponent) is eventually finalized with
\* completed_timeout, unless an accepted action takes it out of the offer
\* state first.
C16_OfferTimesOut ==
    \A w \in Workers :
        OfferWaiting(w) ~> (row.status = "completed_timeout" \/ ~OfferWaiting(w))

\* the action kinds that are transitions of the session's waiting sub-state
KindsOf(s) ==
    IF s.status = "pvb_awaiting_player_choice" THEN {"rps_helper_pvb_choice"}
    ELSE IF s.status = "pvp_awaiting_choices" THEN {"rps_helper_pvp_submit"}
    ELSE IF row.opponent_id = Null
         THEN {"cf_helper_cancel", "cf_helper_accept_bot", "cf_helper_accept_pvp"}
    ELSE {"cf_helper_accept_direct", "cf_helper_decline_direct"}

\* C17: an action whose kind is not a transition of the current waiting
\* sub-state changes no session state and starts no handler (hence no
\* finalize write).
C17_WrongStateNoTransition ==
    [][\A w \in Workers, d \in CallbackData, c \in Actors :
          (Callback(w, d.action, c, d.choice) /\ d.action \notin KindsOf(sess[w])) =>
              (sess' = sess /\ tasks' = tasks)]_vars

\* C18: an opponent id that is set never changes.
C18_OpponentFixed ==
    [][\A w \in Workers :
          (w \in active /\ sess[w].opponent_id # Null) =>
              sess'[w].opponent_id = sess[w].opponent_id]_vars

\* C19: a round resolved with a choice that names none of rock, paper and
\* scissors (in any letter case) has the error result and is finalized with
\* a status that awards no win.
C19_InvalidChoiceFailsClosed ==
    \A t \in BagToSet(tasks) :
        (t.arm \in {"pvb_choice", "pvp_submit"}
            /\ t.pc \in {"pre_finalize", "write_ok", "write_failed"}
            /\ (ToLowerCase(t.a) \notin RPS_CHOICES \/ ToLowerCase(t.b) \notin RPS_CHOICES)) =>
                /\ determineRPSOutcome(t.a, t.b, "Ann", "Bob").result = "error"
                /\ t.fstatus \notin WinnerStatuses

\* C20: a session its committed claimant has put in its table and that is no
\* longer there has a completed_* row.
C20_EvictedIsCompleted ==
    \A w \in Claimants : w \notin active => row.status \in Completed

C20_Witness ==
    \E w \in Claimants :
        /\ w \notin active
        /\ finalizeWrites >= 1
        /\ row.status \in Completed

====
